---- MODULE Spec2Model ----
(***************************************************************************)
(* TranslatePlusClient (translateplus/client.py): the request dispatcher   *)
(* _make_request with its retry loop, semaphore and error classification,  *)
(* download_i18n_file, the translate_concurrent fan-out, and the client's  *)
(* construction, validated methods, close() and with block.                *)
(*                                                                         *)
(* Five specifications share the dispatcher's actions:                     *)
(*   Spec        one caller, every response of Responses;                  *)
(*   SpecConc    NumThreads callers racing for the semaphore, one          *)
(*               response per path of the handler (CoarseResponses);       *)
(*   SpecFanOut  one translate_concurrent call whose pool workers run      *)
(*               the dispatcher;                                           *)
(*   SpecFanOutFair  the same on one or two texts, under a fair scheduler; *)
(*   SpecLife    one caller from __init__ to close(), with the validated   *)
(*               methods, create_i18n_job and the with block.              *)
(***************************************************************************)
EXTENDS Integers, Sequences, FiniteSets, TLC

\* ------------------------------------------------------------- bounds
NumThreads == 2
MaxRetries == 2
MaxRetriesConc == 1
MaxConcurrent == 2
MaxTexts == 2
MaxWorkers == 2
MaxCloses == 3

Threads == 1..NumThreads
Caller == 1

VARIABLES
    max_retries,     \* self.max_retries
    max_concurrent,  \* self.max_concurrent
    sem,             \* self._semaphore: permits available
    pc,              \* pc[t]: where thread t stands in its endpoint call
    attempt,         \* attempt[t]: the retry loop's variable
    nreq,            \* nreq[t]: network requests issued by t's current call
    hist,            \* hist[t]: what each finished attempt received and slept
    outcome,         \* outcome[t]: how t's current call ended
    method,          \* method[t]: the endpoint method t is in
    item,            \* item[t]: index of the text a pool worker translates
    texts,           \* translate_concurrent: number of input texts
    max_workers,     \* translate_concurrent: the executor's max_workers
    workers_arg,     \* translate_concurrent: the max_workers argument
    mainpc,          \* translate_concurrent: position of the calling thread
    submitted,       \* translate_concurrent: futures submitted so far
    queue,           \* the executor's work queue (indices of futures)
    future,          \* future[i]: state and outcome of the i-th future
    yielded,         \* futures as_completed has handed out, in that order
    results,         \* translate_concurrent: the results list
    init_args,       \* the arguments __init__ was called with
    init_outcome,    \* how __init__ ended
    made,            \* the attributes __init__ has set on self
    api_key,         \* self.api_key
    base_url,        \* self.base_url
    session,         \* self.session: "none", "open", "closed"
    scope,           \* the caller's with block: "none", "inside", "left"
    closes,          \* calls of close() so far
    sent_closed,     \* a request went out through the session after close()
    arg,             \* arg[t]: the validated argument of t's endpoint call
    dispatches       \* dispatches[t]: calls of _make_request by t's call

vars == <<max_retries, max_concurrent, sem, pc, attempt, nreq, hist, outcome,
          method, item, texts, max_workers, mainpc, submitted, queue, future,
          yielded, results, init_args, init_outcome, made, api_key, base_url,
          session, scope, closes, sent_closed, arg, dispatches, workers_arg>>

clientVars == <<max_retries, max_concurrent>>
lifeVars == <<init_args, init_outcome, made, api_key, base_url, session,
              scope, closes>>
inputVars == <<arg, dispatches>>
otherVars == <<lifeVars, sent_closed, inputVars>>
fanVars == <<texts, max_workers, workers_arg, mainpc, submitted, queue, future,
             yielded, results>>

\* ------------------------------------------------- values and parsing
\* Optional values: {} is Python's None, {v} is v.
None == {}
Some(v) == {v}
The(o) == CHOOSE v \in o : TRUE

\* Python values the client handles, one record shape: None, a dict (with
\* its "detail" and "error" entries, <<>> when the key is missing), a list,
\* a byte string.
JNone == [t |-> "None", detail |-> <<>>, error |-> <<>>, raw |-> ""]
JObj(detail) == [t |-> "dict", detail |-> detail, error |-> <<>>, raw |-> ""]
JList == [t |-> "list", detail |-> <<>>, error |-> <<>>, raw |-> ""]
Bytes(content) ==
    [t |-> "bytes", detail |-> <<>>, error |-> <<>>, raw |-> content]
EmptyDict == JObj(<<>>)
\* {"error": message} (client.py 572)
ErrorMarker(message) ==
    [t |-> "dict", detail |-> <<>>, error |-> message, raw |-> ""]

\* Response bodies the server (or a gateway in front of it) can send.
BodyEmpty == ""
BodyDetail == "{\"detail\": \"Invalid API key\"}"
BodyObject == "{\"translations\": {}}"
BodyList == "[]"
BodyHtml == "<html>Bad Gateway</html>"
Bodies == {BodyEmpty, BodyDetail, BodyObject, BodyList, BodyHtml}

\* response.json(): the parsed body, or no value when the body is not JSON
\* (requests raises requests.exceptions.JSONDecodeError).
Json(content) ==
    CASE content = BodyDetail -> Some(JObj(<<"Invalid API key">>))
      [] content = BodyObject -> Some(JObj(<<>>))
      [] content = BodyList -> Some(JList)
      [] OTHER -> None

\* int(s) on a header value, s a sequence of characters: decimal digits
\* give their number, anything else no value (ValueError).
Digits == {"0", "1", "2", "3", "4", "5", "6", "7", "8", "9"}
DigitVal(c) ==
    CASE c = "0" -> 0 [] c = "1" -> 1 [] c = "2" -> 2 [] c = "3" -> 3
      [] c = "4" -> 4 [] c = "5" -> 5 [] c = "6" -> 6 [] c = "7" -> 7
      [] c = "8" -> 8 [] c = "9" -> 9

RECURSIVE DecimalValue(_)
DecimalValue(s) ==
    IF s = <<>> THEN 0
    ELSE 10 * DecimalValue(SubSeq(s, 1, Len(s) - 1)) + DigitVal(s[Len(s)])

IntOf(s) ==
    IF s # <<>> /\ \A i \in 1..Len(s) : s[i] \in Digits
    THEN Some(DecimalValue(s))
    ELSE None

\* Retry-After header values: delay-seconds, or an HTTP-date.
RetryAfterSeconds == <<"1", "2">>
RetryAfterDate == <<"W", "e", "d", ",", " ", "2", "1">>

\* --------------------------------------------------------- the inputs
\* What one attempt receives: a response (status, body, Retry-After header:
\* <<>> when absent, <<value>> when present) or a transport failure.
Response(status, content, retry_after) ==
    [kind |-> "response", status_code |-> status, content |-> content,
     retry_after |-> retry_after, error |-> ""]
TransportFailure(e) ==
    [kind |-> "transport", status_code |-> 0, content |-> "",
     retry_after |-> <<>>, error |-> e]

Statuses == {200, 399, 400, 401, 402, 403, 429}
TransportErrors == {"ConnectionError", "Timeout"}

Responses ==
    {Response(s, b, <<>>) : s \in Statuses, b \in Bodies}
    \cup {Response(429, b, <<h>>) :
            b \in Bodies, h \in {RetryAfterSeconds, RetryAfterDate}}
    \cup {TransportFailure(e) : e \in TransportErrors}

\* One input for each way an attempt can end (return, raise, sleep with the
\* slot held, sleep with the slot released), for the specifications that
\* are about the threads' interleaving.
CoarseResponses ==
    {Response(200, BodyObject, <<>>),
     Response(403, BodyDetail, <<>>),
     Response(429, BodyEmpty, <<>>),
     TransportFailure("ConnectionError")}

\* The same, and a 429 whose Retry-After makes int() raise ValueError, an
\* exception outside the client's own hierarchy.
FanOutResponses ==
    CoarseResponses \cup {Response(429, BodyEmpty, <<RetryAfterDate>>)}

\* ------------------------------------------------------ call outcomes
NoOutcome ==
    [kind |-> "none", exc |-> "", message |-> <<>>, status_code |-> None,
     response |-> JNone, value |-> JNone]
Returned(v) ==
    [kind |-> "return", exc |-> "", message |-> <<>>, status_code |-> None,
     response |-> JNone, value |-> v]
\* An exception: class, message, and the status_code and response attributes
\* (status_code None and response JNone when the exception has none).
Raised(exc, message, status_code, response) ==
    [kind |-> "raise", exc |-> exc, message |-> message,
     status_code |-> status_code, response |-> response, value |-> JNone]

\* The subclasses of TranslatePlusError.
Taxonomy ==
    {"TranslatePlusAPIError", "TranslatePlusAuthenticationError",
     "TranslatePlusRateLimitError", "TranslatePlusInsufficientCreditsError",
     "TranslatePlusValidationError"}

\* What the handler of one attempt decides: the call is over ("done"), or
\* it sleeps `slept` seconds with the slot still held ("sleep_held") or
\* after the slot was released ("sleep_free").
Done(o) == [next |-> "done", outcome |-> o, slept |-> None]
Sleep(where, seconds) ==
    [next |-> where, outcome |-> NoOutcome, slept |-> Some(seconds)]

\* ------------------------------------------- the handler of one attempt
\* RateLimitBranch that sleeps after the last attempt too.
RateLimitBranchSleepsLast(resp, a, mr) ==
    Sleep("sleep_held",
          IF resp.retry_after = <<>> THEN 2 ^ a
          ELSE IF IntOf(resp.retry_after[1]) = None THEN 0
          ELSE The(IntOf(resp.retry_after[1])))

\* OnRequestException that sleeps after the last attempt too.
OnRequestExceptionSleepsLast(e, a, mr) ==
    IF a <= mr THEN Sleep("sleep_free", 2 ^ a)
    ELSE Done(Raised("TranslatePlusAPIError", <<"Request failed: ", e>>,
                     None, JNone))

\* OnRequestException with a linear backoff, 2 * attempt.
OnRequestExceptionLinear(e, a, mr) ==
    IF a < mr
    THEN Sleep("sleep_free", 2 * a)
    ELSE Done(Raised("TranslatePlusAPIError", <<"Request failed: ", e>>,
                     None, JNone))

\* except requests.exceptions.RequestException as e (client.py 169-175):
\* back off 2 ** attempt and retry, or wrap the error on the final attempt.
OnRequestException(e, a, mr) ==
    IF a < mr
    THEN Sleep("sleep_free", 2 ^ a)
    ELSE Done(Raised("TranslatePlusAPIError", <<"Request failed: ", e>>,
                     None, JNone))

\* str(e) of the JSONDecodeError response.json() raises; the class derives
\* from RequestException (requests >= 2.31.0, setup.py).
JsonErrorText == "Expecting value: line 1 column 1 (char 0)"

\* if response.status_code == 429 (client.py 123-132).
RateLimitBranch(resp, a, mr) ==
    LET retry_after == IF resp.retry_after = <<>>
                       THEN Some(2 ^ a)
                       ELSE IntOf(resp.retry_after[1])
    IN  IF retry_after = None
        THEN Done(Raised("ValueError", <<"invalid literal for int()">>,
                         None, JNone))
        ELSE IF a < mr
        THEN Sleep("sleep_held", The(retry_after))
        ELSE IF resp.content # "" /\ Json(resp.content) = None
        THEN OnRequestException(JsonErrorText, a, mr)
        ELSE Done(Raised("TranslatePlusRateLimitError",
                         <<"Rate limit exceeded. Please try again later.">>,
                         Some(429),
                         IF resp.content # "" THEN The(Json(resp.content))
                                              ELSE JNone))

\* The exception class for a status >= 400 (client.py 139-162).
ErrorClass(status) ==
    IF status = 401 \/ status = 403 THEN "TranslatePlusAuthenticationError"
    ELSE IF status = 402 THEN "TranslatePlusInsufficientCreditsError"
    ELSE IF status = 429 THEN "TranslatePlusRateLimitError"
    ELSE "TranslatePlusAPIError"

\* error_data.get("detail", f"API error: {status}") (client.py 137, 501).
ErrorMessage(error_data, status) ==
    IF error_data.detail # <<>> THEN error_data.detail
    ELSE <<"API error: ", ToString(status)>>

\* if response.status_code >= 400 (client.py 135-162).
ErrorBranch(resp, a, mr) ==
    IF resp.content # "" /\ Json(resp.content) = None
    THEN OnRequestException(JsonErrorText, a, mr)
    ELSE LET error_data == IF resp.content # "" THEN The(Json(resp.content))
                                                ELSE EmptyDict
         IN  IF error_data.t # "dict"
             THEN Done(Raised("AttributeError", <<"no attribute 'get'">>,
                              None, JNone))
             ELSE Done(Raised(ErrorClass(resp.status_code),
                              ErrorMessage(error_data, resp.status_code),
                              Some(resp.status_code), error_data))

\* return response.json() (client.py 164).
SuccessBranch(resp, a, mr) ==
    IF Json(resp.content) = None
    THEN OnRequestException(JsonErrorText, a, mr)
    ELSE Done(Returned(The(Json(resp.content))))

\* The body of the try block once session.request has come back
\* (client.py 109-175).
HandleAttempt(resp, a, mr) ==
    IF resp.kind = "transport" THEN OnRequestException(resp.error, a, mr)
    ELSE IF resp.status_code = 429 THEN RateLimitBranch(resp, a, mr)
    ELSE IF resp.status_code >= 400 THEN ErrorBranch(resp, a, mr)
    ELSE SuccessBranch(resp, a, mr)

\* ------------------------------------------------------------ actions
callVars == <<pc, attempt, nreq, hist, outcome, method>>

InFlight == {t \in Threads : pc[t] \in {"inflight", "dl_inflight"}}
Holders == {t \in Threads : pc[t] \in {"inflight", "sleep_held"}}

\* What an endpoint method checks or opens before it calls the dispatcher:
\* the length of translate_batch's texts, translate_subtitles' format, and
\* for create_i18n_job the state of the file at file_path and the open
\* file passed as `files`: its size in bytes, the position of the handle,
\* and the bytes the last request uploaded.
NoArg ==
    [texts |-> 0, format |-> "", path |-> "", has_files |-> FALSE,
     size |-> 0, pos |-> 0, sent |-> 0]

\* The session's default headers (client.py 60-64).
SessionHeaders ==
    [h \in {"X-API-KEY", "Content-Type", "User-Agent"} |->
        IF h = "X-API-KEY" THEN api_key
        ELSE IF h = "Content-Type" THEN "application/json"
        ELSE "translateplus-python/1.0.0"]

NoHeaders == [h \in {} |-> ""]

\* The headers argument of session.request (client.py 98-104) and of
\* session.get in download_i18n_file (client.py 495).
RequestHeaders(m, a) ==
    IF m = "download_i18n_file" THEN [h \in {"X-API-KEY"} |-> api_key]
    ELSE IF a.has_files THEN NoHeaders
    ELSE [h \in {"Content-Type"} |-> "application/json"]

\* The session merges its default headers with those of the request; the
\* request's own win.
MergeHeaders(session_headers, request_headers) ==
    [h \in DOMAIN session_headers \cup DOMAIN request_headers |->
        IF h \in DOMAIN request_headers THEN request_headers[h]
        ELSE session_headers[h]]

\* The headers of the request thread t sends.
HeadersSent(t) ==
    MergeHeaders(SessionHeaders, RequestHeaders(method[t], arg[t]))

\* Preparing the request reads the file of `files` from the handle's
\* position to the end; the handle is the one create_i18n_job opened
\* (client.py 425-434) and every attempt is given the same one
\* (client.py 111-117).
ReadFile(a) ==
    IF a.has_files THEN [a EXCEPT !.sent = a.size - a.pos, !.pos = a.size]
    ELSE a

\* What one finished attempt leaves in hist[t].
Entry(t, resp, slept) ==
    [resp |-> resp, slept |-> slept, uploaded |-> arg[t].sent,
     headers |-> HeadersSent(t)]

\* Method `m` of thread t calls _make_request: the loop is about to start
\* (client.py 96-108).
StartDispatcher(t, m, a) ==
    /\ pc[t] = "idle"
    /\ pc' = [pc EXCEPT ![t] = "loop"]
    /\ method' = [method EXCEPT ![t] = m]
    /\ arg' = [arg EXCEPT ![t] = a]
    /\ dispatches' = [dispatches EXCEPT ![t] = 1]
    /\ attempt' = [attempt EXCEPT ![t] = 0]
    /\ nreq' = [nreq EXCEPT ![t] = 0]
    /\ hist' = [hist EXCEPT ![t] = <<>>]
    /\ outcome' = [outcome EXCEPT ![t] = NoOutcome]

\* An endpoint method called by the caller's own thread.
EnterDispatcher(t, m, a) ==
    /\ StartDispatcher(t, m, a)
    /\ UNCHANGED <<clientVars, lifeVars, sent_closed, sem, item, fanVars>>

\* translate (client.py 182-209) goes to the dispatcher unconditionally.
Call(t) == EnterDispatcher(t, "translate", NoArg)

\* for attempt in range(max_retries + 1): with self._semaphore:
\* session.request(...) -- the slot is taken and the request goes out.
Acquire(t) ==
    /\ pc[t] = "loop"
    /\ attempt[t] <= max_retries
    /\ sem > 0
    /\ sem' = sem - 1
    /\ pc' = [pc EXCEPT ![t] = "inflight"]
    /\ nreq' = [nreq EXCEPT ![t] = @ + 1]
    /\ arg' = [arg EXCEPT ![t] = ReadFile(@)]
    /\ sent_closed' = (sent_closed \/ session = "closed")
    /\ UNCHANGED <<clientVars, lifeVars, dispatches, attempt, hist, outcome,
                   method, item, fanVars>>

\* The loop ran out of attempts without returning or raising
\* (client.py 177-180).
Exhausted(t) ==
    /\ pc[t] = "loop"
    /\ attempt[t] > max_retries
    /\ pc' = [pc EXCEPT ![t] = "done"]
    /\ outcome' = [outcome EXCEPT ![t] =
           Raised("TranslatePlusAPIError",
                  <<"Request failed after retries: ",
                    IF hist[t] = <<>> THEN "None"
                    ELSE hist[t][Len(hist[t])].resp.error>>,
                  None, JNone)]
    /\ UNCHANGED <<clientVars, otherVars, sem, attempt, nreq, hist, method,
                   item, fanVars>>

\* Attempt that keeps the slot when the handler raises.
AttemptKeepsSlotOnRaise(t, resp) ==
    /\ pc[t] = "inflight"
    /\ LET h == HandleAttempt(resp, attempt[t], max_retries)
       IN  /\ pc' = [pc EXCEPT ![t] = h.next]
           /\ outcome' = [outcome EXCEPT ![t] = h.outcome]
           /\ hist' = [hist EXCEPT ![t] =
                  Append(@, Entry(t, resp, h.slept))]
           /\ sem' = IF h.next = "sleep_held" \/ h.outcome.kind = "raise"
                     THEN sem ELSE sem + 1
    /\ UNCHANGED <<clientVars, otherVars, attempt, nreq, method, item,
                   fanVars>>

\* session.request comes back with resp (or raises) and the rest of the
\* try block runs. Leaving the with block releases the slot, except when
\* the handler sleeps inside it (client.py 126).
Attempt(t, resp) ==
    /\ pc[t] = "inflight"
    /\ LET h == HandleAttempt(resp, attempt[t], max_retries)
       IN  /\ pc' = [pc EXCEPT ![t] = h.next]
           /\ outcome' = [outcome EXCEPT ![t] = h.outcome]
           /\ hist' = [hist EXCEPT ![t] =
                  Append(@, Entry(t, resp, h.slept))]
           /\ sem' = IF h.next = "sleep_held" THEN sem ELSE sem + 1
    /\ UNCHANGED <<clientVars, otherVars, attempt, nreq, method, item,
                   fanVars>>

\* WakeHeld that leaves the with block without giving the slot back.
WakeHeldLeaks(t) ==
    /\ pc[t] = "sleep_held"
    /\ pc' = [pc EXCEPT ![t] = "loop"]
    /\ attempt' = [attempt EXCEPT ![t] = @ + 1]
    /\ UNCHANGED <<clientVars, otherVars, sem, nreq, hist, outcome, method,
                   item, fanVars>>

\* time.sleep(retry_after) ends; continue leaves the with block, which
\* releases the slot (client.py 126-127).
WakeHeld(t) ==
    /\ pc[t] = "sleep_held"
    /\ sem' = sem + 1
    /\ pc' = [pc EXCEPT ![t] = "loop"]
    /\ attempt' = [attempt EXCEPT ![t] = @ + 1]
    /\ UNCHANGED <<clientVars, otherVars, nreq, hist, outcome, method, item,
                   fanVars>>

\* time.sleep(2 ** attempt) ends; continue (client.py 173-174).
WakeFree(t) ==
    /\ pc[t] = "sleep_free"
    /\ pc' = [pc EXCEPT ![t] = "loop"]
    /\ attempt' = [attempt EXCEPT ![t] = @ + 1]
    /\ UNCHANGED <<clientVars, otherVars, sem, nreq, hist, outcome, method,
                   item, fanVars>>

\* download_i18n_file sends its request through the session directly
\* (client.py 492-497).
CallDownload(t) ==
    /\ pc[t] = "idle"
    /\ pc' = [pc EXCEPT ![t] = "dl_inflight"]
    /\ method' = [method EXCEPT ![t] = "download_i18n_file"]
    /\ attempt' = [attempt EXCEPT ![t] = 0]
    /\ nreq' = [nreq EXCEPT ![t] = 1]
    /\ hist' = [hist EXCEPT ![t] = <<>>]
    /\ outcome' = [outcome EXCEPT ![t] = NoOutcome]
    /\ arg' = [arg EXCEPT ![t] = NoArg]
    /\ dispatches' = [dispatches EXCEPT ![t] = 0]
    /\ sent_closed' = (sent_closed \/ session = "closed")
    /\ UNCHANGED <<clientVars, lifeVars, sem, item, fanVars>>

\* The rest of download_i18n_file (client.py 493-508); nothing catches
\* what session.get or response.json() raise.
HandleDownload(resp) ==
    IF resp.kind = "transport"
    THEN Raised(resp.error, <<resp.error>>, None, JNone)
    ELSE IF resp.status_code >= 400
    THEN IF resp.content # "" /\ Json(resp.content) = None
         THEN Raised("JSONDecodeError", <<JsonErrorText>>, None, JNone)
         ELSE LET error_data == IF resp.content # ""
                                THEN The(Json(resp.content)) ELSE EmptyDict
              IN  IF error_data.t # "dict"
                  THEN Raised("AttributeError", <<"no attribute 'get'">>,
                              None, JNone)
                  ELSE Raised("TranslatePlusAPIError",
                              ErrorMessage(error_data, resp.status_code),
                              Some(resp.status_code), error_data)
    ELSE Returned(Bytes(resp.content))

Download(t, resp) ==
    /\ pc[t] = "dl_inflight"
    /\ pc' = [pc EXCEPT ![t] = "done"]
    /\ outcome' = [outcome EXCEPT ![t] = HandleDownload(resp)]
    /\ hist' = [hist EXCEPT ![t] = Append(@, Entry(t, resp, None))]
    /\ UNCHANGED <<clientVars, otherVars, sem, attempt, nreq, method, item,
                   fanVars>>

\* The caller has the call's result or exception and is free to call again.
Finish(t) ==
    /\ pc[t] = "done"
    /\ item[t] = 0
    /\ pc' = [pc EXCEPT ![t] = "idle"]
    /\ method' = [method EXCEPT ![t] = "none"]
    /\ attempt' = [attempt EXCEPT ![t] = 0]
    /\ nreq' = [nreq EXCEPT ![t] = 0]
    /\ hist' = [hist EXCEPT ![t] = <<>>]
    /\ outcome' = [outcome EXCEPT ![t] = NoOutcome]
    /\ arg' = [arg EXCEPT ![t] = NoArg]
    /\ dispatches' = [dispatches EXCEPT ![t] = 0]
    /\ UNCHANGED <<clientVars, lifeVars, sent_closed, sem, item, fanVars>>

\* ------------------------------------------------- validated methods
\* The largest batch translate_batch accepts (client.py 238).
MaxBatch == 100
\* Lengths of the texts list: empty, the smallest, the largest accepted
\* and the first rejected.
BatchSizes == {0, 1, 2, MaxBatch, MaxBatch + 1}

\* The format argument of translate_subtitles.
Formats == {"srt", "vtt", "SRT", "invalid", ""}

\* BatchError with the limit reached one text early.
BatchErrorOffByOne(n) ==
    IF n = 0 THEN Some("Texts list cannot be empty")
    ELSE IF n >= MaxBatch
    THEN Some("Maximum 100 texts allowed per batch request")
    ELSE None

\* The checks at the head of translate_batch on a list of n texts: the
\* message of the TranslatePlusValidationError, None when the list passes
\* (client.py 236-239).
BatchError(n) ==
    IF n = 0 THEN Some("Texts list cannot be empty")
    ELSE IF n > MaxBatch
    THEN Some("Maximum 100 texts allowed per batch request")
    ELSE None

\* FormatError with the check left out.
FormatErrorNever(f) == None

\* The check at the head of translate_subtitles (client.py 340-341).
FormatError(f) ==
    IF f \notin {"srt", "vtt"} THEN Some("Format must be 'srt' or 'vtt'")
    ELSE None

\* Method m of thread t raises an exception of class exc before it
\* reaches the dispatcher.
RaiseBefore(t, m, a, exc, message) ==
    /\ pc[t] = "idle"
    /\ pc' = [pc EXCEPT ![t] = "done"]
    /\ method' = [method EXCEPT ![t] = m]
    /\ arg' = [arg EXCEPT ![t] = a]
    /\ dispatches' = [dispatches EXCEPT ![t] = 0]
    /\ attempt' = [attempt EXCEPT ![t] = 0]
    /\ nreq' = [nreq EXCEPT ![t] = 0]
    /\ hist' = [hist EXCEPT ![t] = <<>>]
    /\ outcome' = [outcome EXCEPT ![t] =
           Raised(exc, <<message>>, None, JNone)]
    /\ UNCHANGED <<clientVars, lifeVars, sent_closed, sem, item, fanVars>>

\* raise TranslatePlusValidationError(message)
RaiseValidation(t, m, a, message) ==
    RaiseBefore(t, m, a, "TranslatePlusValidationError", message)

\* translate_batch(texts) with len(texts) = n (client.py 211-246).
CallBatch(t, n) ==
    LET a == [NoArg EXCEPT !.texts = n]
    IN  IF BatchError(n) # None
        THEN RaiseValidation(t, "translate_batch", a, The(BatchError(n)))
        ELSE EnterDispatcher(t, "translate_batch", a)

\* translate_subtitles(content, format=f) (client.py 315-349).
CallSubtitles(t, f) ==
    LET a == [NoArg EXCEPT !.format = f]
    IN  IF FormatError(f) # None
        THEN RaiseValidation(t, "translate_subtitles", a, The(FormatError(f)))
        ELSE EnterDispatcher(t, "translate_subtitles", a)

\* The file at file_path: missing, unreadable, or a file of some bytes.
Files ==
    {[state |-> "missing", size |-> 0], [state |-> "unreadable", size |-> 0]}
    \cup {[state |-> "ok", size |-> n] : n \in {1, 2}}

\* open(file_path, "rb") (client.py 425): the class of the exception it
\* raises, None when the file opens.
OpenError(file) ==
    IF file.state = "missing" THEN Some("FileNotFoundError")
    ELSE IF file.state = "unreadable" THEN Some("PermissionError")
    ELSE None

\* create_i18n_job(file_path, target_languages) (client.py 397-434): the
\* file is opened, then passed to the dispatcher as `files`.
CallCreateJob(t, file) ==
    IF OpenError(file) # None
    THEN RaiseBefore(t, "create_i18n_job",
                     [NoArg EXCEPT !.path = file.state],
                     The(OpenError(file)),
                     IF file.state = "missing"
                     THEN "No such file or directory"
                     ELSE "Permission denied")
    ELSE EnterDispatcher(t, "create_i18n_job",
                         [NoArg EXCEPT !.path = file.state,
                                       !.has_files = TRUE,
                                       !.size = file.size])

\* ------------------------------------------- construction and close
\* Credentials a caller passes: none at all, a key.
ApiKeys == {"", "test-api-key"}

\* URLs as sequences of pieces, so that a trailing "/" is a piece of its
\* own. The default of the base_url parameter (client.py 44):
DefaultBaseUrl == <<"https://api.translateplus.io">>
StagingUrl == <<"https://staging-api.translateplus.com">>
\* base_url arguments: None stands for an omitted argument.
BaseUrlArgs == {None, Some(StagingUrl), Some(StagingUrl \o <<"/">>)}

\* str.rstrip("/") (client.py 53)
RECURSIVE RStripSlash(_)
RStripSlash(url) ==
    IF url # <<>> /\ url[Len(url)] = "/"
    THEN RStripSlash(SubSeq(url, 1, Len(url) - 1))
    ELSE url

\* The attributes __init__ sets on self (client.py 52-67).
Attributes ==
    {"api_key", "base_url", "timeout", "max_retries", "max_concurrent",
     "session", "_semaphore"}

\* `not api_key` (client.py 49)
NotApiKey(key) == key = ""

\* InitAttributes with the key checked after everything is set up.
InitAttributesCheckedLast(key) == Attributes

\* The attributes self has when __init__ is over: the key is checked first
\* (client.py 49-50), so a rejected key leaves none.
InitAttributes(key) == IF NotApiKey(key) THEN {} ELSE Attributes

\* TranslatePlusClient(api_key=key, base_url=url, max_retries=mr,
\* max_concurrent=mc), url None for an omitted base_url (client.py 41-67).
Construct(key, url, mr, mc) ==
    /\ init_outcome.kind = "none"
    /\ init_args' = [api_key |-> key, base_url |-> url]
    /\ made' = InitAttributes(key)
    /\ session' = IF "session" \in made' THEN "open" ELSE "none"
    /\ sem' = IF "_semaphore" \in made' THEN mc ELSE sem
    /\ IF NotApiKey(key)
       THEN /\ init_outcome' =
                   Raised("TranslatePlusValidationError",
                          <<"API key is required">>, None, JNone)
            /\ UNCHANGED <<api_key, base_url, clientVars>>
       ELSE /\ init_outcome' = Returned(JNone)
            /\ api_key' = key
            /\ base_url' =
                   RStripSlash(IF url = None THEN DefaultBaseUrl ELSE The(url))
            /\ max_retries' = mr
            /\ max_concurrent' = mc
    /\ UNCHANGED <<scope, closes, sent_closed, inputVars, callVars, item,
                   fanVars>>

IsConstructed == init_outcome.kind = "return"

\* self.session.close() (client.py 578)
CloseSession ==
    /\ session' = "closed"
    /\ closes' = closes + 1

\* close() between two endpoint calls of the caller (client.py 576-578).
Close ==
    /\ IsConstructed
    /\ closes < MaxCloses
    /\ pc[Caller] \in {"idle", "done"}
    /\ CloseSession
    /\ UNCHANGED <<clientVars, init_args, init_outcome, made, api_key,
                   base_url, scope, sent_closed, inputVars, sem, callVars,
                   item, fanVars>>

\* Exit that closes the session only when the block ended normally.
ExitKeepsOpenOnException(exc) ==
    /\ scope = "inside"
    /\ pc[Caller] \in {"idle", "done"}
    /\ IF exc = "" THEN CloseSession ELSE UNCHANGED <<session, closes>>
    /\ scope' = IF exc = "" THEN "left" ELSE "left_raising"
    /\ UNCHANGED <<clientVars, init_args, init_outcome, made, api_key,
                   base_url, sent_closed, inputVars, sem, callVars, item,
                   fanVars>>

\* `with client:` -- __enter__ returns self (client.py 580-582).
Enter ==
    /\ IsConstructed
    /\ scope = "none"
    /\ scope' = "inside"
    /\ UNCHANGED <<clientVars, init_args, init_outcome, made, api_key,
                   base_url, session, closes, sent_closed, inputVars, sem,
                   callVars, item, fanVars>>

\* The with block is left, normally (exc = "") or by an exception of class
\* exc: __exit__ calls close() and returns None, so the exception goes on
\* (client.py 584-586).
Exit(exc) ==
    /\ scope = "inside"
    /\ pc[Caller] \in {"idle", "done"}
    /\ CloseSession
    /\ scope' = IF exc = "" THEN "left" ELSE "left_raising"
    /\ UNCHANGED <<clientVars, init_args, init_outcome, made, api_key,
                   base_url, sent_closed, inputVars, sem, callVars, item,
                   fanVars>>

\* ------------------------------------------------ translate_concurrent
\* FutureToIndex with the loop variable bound late: every future maps to
\* the last index.
FutureToIndexLast(f) == texts

\* future_to_index (client.py 562-565): the future submitted for
\* texts[i] maps to index i; futures and indices are numbered from 1 here.
FutureToIndex(f) == f

\* The classes the model's calls raise; all derive from Exception.
ExceptionClasses ==
    Taxonomy \cup TransportErrors
    \cup {"ValueError", "AttributeError", "JSONDecodeError"}

\* Catches with a narrower clause: except TranslatePlusError.
CatchesTranslatePlusError(exc) == exc \in Taxonomy

\* except Exception as e (client.py 571)
Catches(exc) == exc \in ExceptionClasses

\* results[index] = future.result(), or {"error": str(e)} when the call
\* raised (client.py 569-572).
ResultEntry(o) ==
    IF o.kind = "raise" THEN ErrorMarker(o.message) ELSE o.value

\* A future that has not run yet; `calls` counts the calls of translate
\* made for it.
Pending == [state |-> "pending", outcome |-> NoOutcome, calls |-> 0]

\* MaxWorkersOf with the executor's own default instead of the client's.
MaxWorkersOfExecutor(w) == IF w = None THEN NumThreads ELSE The(w)

\* if max_workers is None: max_workers = self.max_concurrent
\* (client.py 556-557)
MaxWorkersOf(w) == IF w = None THEN max_concurrent ELSE The(w)

\* translate_concurrent is called with n texts and max_workers w (None
\* for the default); results = [None] * len(texts) (client.py 556-561).
TranslateConcurrent(n, w) ==
    /\ mainpc = "none"
    /\ texts' = n
    /\ workers_arg' = w
    /\ max_workers' = MaxWorkersOf(w)
    /\ results' = [i \in 1..n |-> JNone]
    /\ future' = [i \in 1..n |-> Pending]
    /\ submitted' = 0
    /\ queue' = <<>>
    /\ yielded' = <<>>
    /\ mainpc' = IF n = 0 THEN "collect" ELSE "submit"
    /\ UNCHANGED <<clientVars, otherVars, sem, callVars, item>>

\* executor.submit(self.translate, text, source, target) for the next
\* text (client.py 562-565).
Submit ==
    /\ mainpc = "submit"
    /\ submitted' = submitted + 1
    /\ queue' = Append(queue, submitted + 1)
    /\ mainpc' = IF submitted + 1 = texts THEN "collect" ELSE "submit"
    /\ UNCHANGED <<clientVars, otherVars, sem, callVars, item, texts,
                   max_workers, workers_arg, future, yielded, results>>

\* A pool thread (there are at most max_workers, one started per submit)
\* takes the oldest work item.
TakeWork(t) ==
    /\ t <= max_workers
    /\ t <= submitted
    /\ pc[t] = "idle"
    /\ item[t] = 0
    /\ queue # <<>>
    /\ item' = [item EXCEPT ![t] = Head(queue)]
    /\ queue' = Tail(queue)
    /\ future' = [future EXCEPT ![Head(queue)].state = "running"]
    /\ UNCHANGED <<clientVars, otherVars, sem, callVars, texts, max_workers,
                   workers_arg, mainpc, submitted, yielded, results>>

\* The pool thread runs self.translate for its work item.
RunWork(t) ==
    /\ item[t] # 0
    /\ StartDispatcher(t, "translate", NoArg)
    /\ future' = [future EXCEPT ![item[t]].calls = @ + 1]
    /\ UNCHANGED <<clientVars, lifeVars, sent_closed, sem, item, texts,
                   max_workers, workers_arg, mainpc, submitted, queue, yielded,
                   results>>

\* translate has returned or raised in the pool thread: the future holds
\* the result or the exception.
CompleteFuture(t) ==
    /\ pc[t] = "done"
    /\ item[t] # 0
    /\ future' = [future EXCEPT ![item[t]].state = "done",
                                ![item[t]].outcome = outcome[t]]
    /\ item' = [item EXCEPT ![t] = 0]
    /\ pc' = [pc EXCEPT ![t] = "idle"]
    /\ method' = [method EXCEPT ![t] = "none"]
    /\ attempt' = [attempt EXCEPT ![t] = 0]
    /\ nreq' = [nreq EXCEPT ![t] = 0]
    /\ hist' = [hist EXCEPT ![t] = <<>>]
    /\ outcome' = [outcome EXCEPT ![t] = NoOutcome]
    /\ arg' = [arg EXCEPT ![t] = NoArg]
    /\ dispatches' = [dispatches EXCEPT ![t] = 0]
    /\ UNCHANGED <<clientVars, lifeVars, sent_closed, sem, texts, max_workers,
                   workers_arg, mainpc, submitted, queue, yielded, results>>

\* for future in as_completed(future_to_index): one finished future is
\* handed out and its entry stored (client.py 567-572).
Collect(f) ==
    /\ mainpc = "collect"
    /\ f \in 1..texts
    /\ \A k \in 1..Len(yielded) : yielded[k] # f
    /\ future[f].state = "done"
    /\ yielded' = Append(yielded, f)
    /\ IF future[f].outcome.kind = "raise" /\ ~Catches(future[f].outcome.exc)
       THEN /\ mainpc' = "raised"
            /\ UNCHANGED results
       ELSE /\ results' = [results EXCEPT ![FutureToIndex(f)] =
                               ResultEntry(future[f].outcome)]
            /\ UNCHANGED mainpc
    /\ UNCHANGED <<clientVars, otherVars, sem, callVars, item, texts,
                   max_workers, workers_arg, submitted, queue, future>>

\* as_completed is exhausted, the executor shuts down, return results
\* (client.py 573-574).
ReturnResults ==
    /\ mainpc = "collect"
    /\ Len(yielded) = texts
    /\ mainpc' = "returned"
    /\ UNCHANGED <<clientVars, otherVars, sem, callVars, item, texts,
                   max_workers, workers_arg, submitted, queue, future, yielded,
                   results>>

\* ----------------------------------------------------- specifications
\* A client built by __init__ (client.py 41-67) from a key and the default
\* base_url: the semaphore starts with max_concurrent permits; no call is
\* under way.
InitClient(retries) ==
    /\ max_retries \in retries
    /\ max_concurrent \in 1..MaxConcurrent
    /\ sem = max_concurrent
    /\ pc = [t \in Threads |-> "idle"]
    /\ method = [t \in Threads |-> "none"]
    /\ attempt = [t \in Threads |-> 0]
    /\ nreq = [t \in Threads |-> 0]
    /\ hist = [t \in Threads |-> <<>>]
    /\ outcome = [t \in Threads |-> NoOutcome]
    /\ item = [t \in Threads |-> 0]
    /\ texts = 0
    /\ max_workers = 0
    /\ workers_arg = None
    /\ mainpc = "none"
    /\ submitted = 0
    /\ queue = <<>>
    /\ future = <<>>
    /\ yielded = <<>>
    /\ results = <<>>
    /\ init_args = [api_key |-> "test-api-key", base_url |-> None]
    /\ init_outcome = Returned(JNone)
    /\ made = Attributes
    /\ api_key = "test-api-key"
    /\ base_url = DefaultBaseUrl
    /\ session = "open"
    /\ scope = "none"
    /\ closes = 0
    /\ sent_closed = FALSE
    /\ arg = [t \in Threads |-> NoArg]
    /\ dispatches = [t \in Threads |-> 0]

Init == InitClient(-1..MaxRetries)

\* One caller, every response.
Next ==
    \/ Call(Caller)
    \/ Acquire(Caller)
    \/ Exhausted(Caller)
    \/ \E resp \in Responses : Attempt(Caller, resp)
    \/ WakeHeld(Caller)
    \/ WakeFree(Caller)
    \/ CallDownload(Caller)
    \/ \E resp \in Responses : Download(Caller, resp)
    \/ Finish(Caller)

Spec == Init /\ [][Next]_vars

\* NumThreads callers, one response per path of the handler.
NextConc ==
    \E t \in Threads :
        \/ Call(t)
        \/ Acquire(t)
        \/ Exhausted(t)
        \/ \E resp \in CoarseResponses : Attempt(t, resp)
        \/ WakeHeld(t)
        \/ WakeFree(t)
        \/ CallDownload(t)
        \/ \E resp \in CoarseResponses : Download(t, resp)
        \/ Finish(t)

InitConc == InitClient(-1..MaxRetriesConc)

SpecConc == InitConc /\ [][NextConc]_vars

\* One translate_concurrent call; its pool threads run the dispatcher.
NextFanOut ==
    \/ \E n \in 0..MaxTexts, w \in {None} \cup {Some(k) : k \in 1..MaxWorkers} :
          TranslateConcurrent(n, w)
    \/ Submit
    \/ \E t \in Threads :
          \/ TakeWork(t)
          \/ RunWork(t)
          \/ Acquire(t)
          \/ Exhausted(t)
          \/ \E resp \in FanOutResponses : Attempt(t, resp)
          \/ WakeHeld(t)
          \/ WakeFree(t)
          \/ CompleteFuture(t)
    \/ \E f \in 1..MaxTexts : Collect(f)
    \/ ReturnResults

\* The retry budgets of the fan-out runs: none at all, none left after the
\* first attempt, one retry.
InitFanOut == InitClient({-1, 0, 1})

SpecFanOut == InitFanOut /\ [][NextFanOut]_vars

\* The fan-out runs whose termination is checked: one or two texts, which
\* is enough for two workers to compete for one slot while one of them is
\* in backoff.
NextFanOutLive ==
    \/ \E n \in {1, 2}, w \in {None, Some(1), Some(2)} :
          TranslateConcurrent(n, w)
    \/ Submit
    \/ \E t \in Threads :
          \/ TakeWork(t)
          \/ RunWork(t)
          \/ Acquire(t)
          \/ Exhausted(t)
          \/ \E resp \in FanOutResponses : Attempt(t, resp)
          \/ WakeHeld(t)
          \/ WakeFree(t)
          \/ CompleteFuture(t)
    \/ \E f \in {1, 2} : Collect(f)
    \/ ReturnResults

\* A fair scheduler: every request comes back, every sleep ends, and a
\* thread that can take its next step (a free slot included) takes it.
FairFanOut ==
    /\ WF_vars(Submit)
    /\ WF_vars(ReturnResults)
    /\ \A f \in {1, 2} : WF_vars(Collect(f))
    /\ \A t \in Threads :
          /\ WF_vars(TakeWork(t))
          /\ WF_vars(RunWork(t))
          /\ WF_vars(Acquire(t))
          /\ WF_vars(Exhausted(t))
          /\ WF_vars(\E resp \in FanOutResponses : Attempt(t, resp))
          /\ WF_vars(WakeHeld(t))
          /\ WF_vars(WakeFree(t))
          /\ WF_vars(CompleteFuture(t))

SpecFanOutFair == InitFanOut /\ [][NextFanOutLive]_vars /\ FairFanOut

\* A caller that builds a client, calls its methods one after the other,
\* may use it as a context manager and may close it.
InitLife ==
    /\ max_retries = 0
    /\ max_concurrent = 0
    /\ sem = 0
    /\ pc = [t \in Threads |-> "idle"]
    /\ method = [t \in Threads |-> "none"]
    /\ attempt = [t \in Threads |-> 0]
    /\ nreq = [t \in Threads |-> 0]
    /\ hist = [t \in Threads |-> <<>>]
    /\ outcome = [t \in Threads |-> NoOutcome]
    /\ item = [t \in Threads |-> 0]
    /\ texts = 0
    /\ max_workers = 0
    /\ workers_arg = None
    /\ mainpc = "none"
    /\ submitted = 0
    /\ queue = <<>>
    /\ future = <<>>
    /\ yielded = <<>>
    /\ results = <<>>
    /\ init_args = [api_key |-> "", base_url |-> None]
    /\ init_outcome = NoOutcome
    /\ made = {}
    /\ api_key = ""
    /\ base_url = <<>>
    /\ session = "none"
    /\ scope = "none"
    /\ closes = 0
    /\ sent_closed = FALSE
    /\ arg = [t \in Threads |-> NoArg]
    /\ dispatches = [t \in Threads |-> 0]

NextLife ==
    \/ \E key \in ApiKeys, url \in BaseUrlArgs, mr \in -1..MaxRetriesConc,
          mc \in 1..MaxConcurrent : Construct(key, url, mr, mc)
    \/ Enter
    \/ \E exc \in {"", "KeyError"} : Exit(exc)
    \/ Close
    \/ IsConstructed /\ Call(Caller)
    \/ \E n \in BatchSizes : IsConstructed /\ CallBatch(Caller, n)
    \/ \E f \in Formats : IsConstructed /\ CallSubtitles(Caller, f)
    \/ \E file \in Files : IsConstructed /\ CallCreateJob(Caller, file)
    \/ IsConstructed /\ CallDownload(Caller)
    \/ Acquire(Caller)
    \/ Exhausted(Caller)
    \/ \E resp \in CoarseResponses : Attempt(Caller, resp)
    \/ WakeHeld(Caller)
    \/ WakeFree(Caller)
    \/ \E resp \in CoarseResponses : Download(Caller, resp)
    \/ Finish(Caller)

SpecLife == InitLife /\ [][NextLife]_vars

\* ----------------------------------------------------------- claims
\* The attempts of t's current dispatcher call, numbered from 1; attempt
\* number a of the code is entry a + 1.
Attempts(t) == IF dispatches[t] = 1 THEN 1..Len(hist[t]) ELSE {}
Got(t, i) == hist[t][i].resp
IsStatus(t, i, statuses) ==
    Got(t, i).kind = "response" /\ Got(t, i).status_code \in statuses
\* Entry i ended the call: nothing was requested or slept after it.
EndsCall(t, i) ==
    /\ i = Len(hist[t])
    /\ pc[t] = "done"
    /\ nreq[t] = i
    /\ hist[t][i].slept = None

\* C1: at any moment the number of HTTP requests in flight, over all the
\* endpoint methods of one client, is at most max_concurrent.
C1_InFlightBounded == Cardinality(InFlight) <= max_concurrent

\* C2: a 401 or 403 response, on whichever attempt it arrives, makes the
\* call raise TranslatePlusAuthenticationError with no further network
\* request (so exactly one request when it arrives on the first attempt).
C2_AuthenticationNeverRetried ==
    \A t \in Threads : \A i \in Attempts(t) :
        IsStatus(t, i, {401, 403}) =>
            /\ EndsCall(t, i)
            /\ outcome[t].kind = "raise"
            /\ outcome[t].exc = "TranslatePlusAuthenticationError"

\* C3: a 402 response makes the call raise
\* TranslatePlusInsufficientCreditsError, with no further network request
\* and no backoff sleep after it.
C3_InsufficientCreditsNeverRetried ==
    \A t \in Threads : \A i \in Attempts(t) :
        IsStatus(t, i, {402}) =>
            /\ EndsCall(t, i)
            /\ outcome[t].kind = "raise"
            /\ outcome[t].exc = "TranslatePlusInsufficientCreditsError"

\* C4: a call in which every response is 429 makes max_retries + 1 network
\* requests and then raises TranslatePlusRateLimitError with status_code
\* 429; a 429 on a non-final attempt never raises.
All429(t) ==
    /\ hist[t] # <<>>
    /\ \A i \in Attempts(t) : IsStatus(t, i, {429})
C4_RateLimitRetriedThenRaised ==
    \A t \in Threads :
        (method[t] = "translate" /\ All429(t)) =>
            /\ Len(hist[t]) - 1 < max_retries => outcome[t].kind # "raise"
            /\ pc[t] = "done" =>
                   /\ nreq[t] = max_retries + 1
                   /\ outcome[t].kind = "raise"
                   /\ outcome[t].exc = "TranslatePlusRateLimitError"
                   /\ outcome[t].status_code = Some(429)

\* C5: after a 429 on attempt a < max_retries the dispatcher sleeps the
\* Retry-After value when the header is present and 2^a seconds when it is
\* absent; after a 429 on the final attempt it does not sleep.
C5_RateLimitSleep ==
    \A t \in Threads : \A i \in Attempts(t) :
        IsStatus(t, i, {429}) =>
            IF i - 1 < max_retries
            THEN IF Got(t, i).retry_after = <<>>
                 THEN hist[t][i].slept = Some(2 ^ (i - 1))
                 ELSE /\ hist[t][i].slept # None
                      /\ Got(t, i).retry_after = <<RetryAfterSeconds>>
                             => hist[t][i].slept = Some(12)
            ELSE hist[t][i].slept = None

\* C6: a transport failure on attempt a < max_retries is followed by a
\* sleep of 2^a seconds and another attempt; on the final attempt the call
\* raises TranslatePlusAPIError whose message wraps the transport error's,
\* after max_retries + 1 requests when every attempt failed that way.
AllTransport(t) == \A i \in Attempts(t) : Got(t, i).kind = "transport"
C6_TransportRetried ==
    \A t \in Threads : \A i \in Attempts(t) :
        Got(t, i).kind = "transport" =>
            IF i - 1 < max_retries
            THEN /\ hist[t][i].slept = Some(2 ^ (i - 1))
                 /\ i = Len(hist[t]) =>
                        \/ pc[t] = "sleep_free" /\ attempt[t] = i - 1
                        \/ pc[t] \in {"loop", "inflight"} /\ attempt[t] = i
            ELSE /\ EndsCall(t, i)
                 /\ outcome[t] =
                        Raised("TranslatePlusAPIError",
                               <<"Request failed: ", Got(t, i).error>>,
                               None, JNone)
                 /\ AllTransport(t) => nreq[t] = max_retries + 1

\* Witness of C6: with max_retries = 2, three transport failures in a row
\* ended the call after sleeps of 1 and 2 seconds.
C6_Witness ==
    /\ max_retries = 2
    /\ pc[Caller] = "done"
    /\ method[Caller] = "translate"
    /\ Len(hist[Caller]) = 3
    /\ AllTransport(Caller)
    /\ hist[Caller][2].slept = Some(2)

\* C7: a response with status >= 400 other than 401, 402, 403, 429 makes
\* the call raise TranslatePlusAPIError with that status code and the
\* parsed body, or an empty payload when the body is empty or not JSON; no
\* retry and no sleep follows, whatever the body.
C7_GenericErrorNotRetried ==
    \A t \in Threads : \A i \in Attempts(t) :
        (/\ Got(t, i).kind = "response"
         /\ Got(t, i).status_code >= 400
         /\ Got(t, i).status_code \notin {401, 402, 403, 429}) =>
            /\ EndsCall(t, i)
            /\ outcome[t] =
                   Raised("TranslatePlusAPIError", outcome[t].message,
                          Some(Got(t, i).status_code),
                          IF Json(Got(t, i).content) # None
                          THEN The(Json(Got(t, i).content))
                          ELSE EmptyDict)

\* C8: a response with status 200-399 ends the call, which returns its
\* parsed JSON body, on the first attempt and after retries alike; no
\* further request follows it.
C8_SuccessReturnsBody ==
    \A t \in Threads : \A i \in Attempts(t) :
        (Got(t, i).kind = "response" /\ Got(t, i).status_code \in 200..399) =>
            /\ EndsCall(t, i)
            /\ outcome[t].kind = "return"
            /\ Json(Got(t, i).content) = Some(outcome[t].value)

\* C9: translate_concurrent on N texts returns N entries, entry i being the
\* outcome of the translate call made for texts[i], in whatever order the
\* workers finish; no entry stays None and none lands at another index.
IsEntryOf(entry, o) ==
    \/ o.kind = "return" /\ entry = o.value
    \/ o.kind = "raise" /\ entry.t = "dict" /\ entry.error = o.message
C9_ResultsPositional ==
    /\ mainpc \in {"collect", "returned"} =>
           /\ Len(results) = texts
           /\ \A i \in 1..texts :
                  results[i] # JNone =>
                      /\ future[i].state = "done"
                      /\ IsEntryOf(results[i], future[i].outcome)
    /\ mainpc = "returned" => \A i \in 1..texts : results[i] # JNone

\* Witness of C9: two texts, the second call finished and was collected
\* first, and the two entries differ.
C9_Witness ==
    /\ mainpc = "returned"
    /\ texts = 2
    /\ yielded = <<2, 1>>
    /\ results[1] # results[2]

\* C10: when the translate call for item i fails, entry i is the marker
\* {"error": message}, every other item is still dispatched and holds its
\* own outcome, and translate_concurrent returns instead of raising.
C10_FailureIsolated ==
    /\ mainpc # "raised"
    /\ mainpc = "returned" =>
           \A i \in 1..texts :
               /\ future[i].state = "done"
               /\ future[i].outcome.kind = "raise" =>
                      results[i] = ErrorMarker(future[i].outcome.message)
               /\ future[i].outcome.kind = "return" =>
                      results[i] = future[i].outcome.value

\* Witness of C10: of two texts the first call raised (a ValueError, not
\* one of the client's own errors) and the second returned; the call came
\* back with a marker and a translation.
C10_Witness ==
    /\ mainpc = "returned"
    /\ texts = 2
    /\ future[1].outcome.kind = "raise"
    /\ future[1].outcome.exc = "ValueError"
    /\ results[1].error # <<>>
    /\ future[2].outcome.kind = "return"
    /\ results[2] = EmptyDict

\* C11: constructing a client with a non-empty api_key succeeds;
\* constructing it with an empty api_key raises
\* TranslatePlusValidationError, and then neither the session nor the
\* semaphore has been created.
C11_ApiKeyRequired ==
    init_outcome.kind # "none" =>
        /\ init_args.api_key # "" =>
              /\ init_outcome.kind = "return"
              /\ made = Attributes
              /\ session # "none"
              /\ api_key = init_args.api_key
        /\ init_args.api_key = "" =>
              /\ init_outcome.kind = "raise"
              /\ init_outcome.exc = "TranslatePlusValidationError"
              /\ session = "none"
              /\ "session" \notin made
              /\ "_semaphore" \notin made

C11_Witness ==
    /\ init_args.api_key = ""
    /\ init_outcome.kind = "raise"
    /\ made = {}

\* C12: translate_batch raises TranslatePlusValidationError, with no
\* network request and no slot taken, when texts is empty or has more
\* than 100 items; a list of 1 to 100 texts passes the validation and makes
\* exactly one dispatcher call.
C12_BatchValidation ==
    \A t \in Threads :
        method[t] = "translate_batch" =>
            /\ (arg[t].texts = 0 \/ arg[t].texts > 100) =>
                  /\ pc[t] = "done"
                  /\ outcome[t].kind = "raise"
                  /\ outcome[t].exc = "TranslatePlusValidationError"
                  /\ nreq[t] = 0
                  /\ hist[t] = <<>>
                  /\ dispatches[t] = 0
                  /\ sem = max_concurrent
            /\ arg[t].texts \in 1..100 =>
                  /\ dispatches[t] = 1
                  /\ outcome[t].exc # "TranslatePlusValidationError"

C12_Witness ==
    /\ method[Caller] = "translate_batch"
    /\ arg[Caller].texts = 100
    /\ pc[Caller] = "done"
    /\ outcome[Caller].kind = "return"
    /\ nreq[Caller] = 1

\* C13: translate_subtitles raises TranslatePlusValidationError with no
\* network request whenever format is neither "srt" nor "vtt"; with "srt"
\* or "vtt" it passes the validation and makes exactly one dispatcher call.
C13_SubtitleFormat ==
    \A t \in Threads :
        method[t] = "translate_subtitles" =>
            /\ arg[t].format \notin {"srt", "vtt"} =>
                  /\ pc[t] = "done"
                  /\ outcome[t].kind = "raise"
                  /\ outcome[t].exc = "TranslatePlusValidationError"
                  /\ nreq[t] = 0
                  /\ hist[t] = <<>>
                  /\ dispatches[t] = 0
            /\ arg[t].format \in {"srt", "vtt"} =>
                  /\ dispatches[t] = 1
                  /\ outcome[t].exc # "TranslatePlusValidationError"

C13_Witness ==
    /\ method[Caller] = "translate_subtitles"
    /\ arg[Caller].format = "invalid"
    /\ pc[Caller] = "done"
    /\ outcome[Caller].exc = "TranslatePlusValidationError"

\* Requests of t's current call that were followed by a sleep.
Sleeps(t) ==
    Cardinality({i \in 1..Len(hist[t]) : hist[t][i].slept # None})

\* C14: leaving the with block closes the session, whether the block ends
\* normally or by an exception; every close() (the one of __exit__ and any
\* later one) leaves the session closed and changes nothing else of the
\* client, so repeated calls end in the same closed state.
C14_CloseOnExit ==
    /\ [](scope \in {"left", "left_raising"} =>
              session = "closed" /\ closes >= 1)
    /\ [][closes' > closes =>
              /\ session' = "closed"
              /\ UNCHANGED <<clientVars, made, api_key, base_url, sem,
                             init_outcome>>]_vars

C14_Witness ==
    /\ scope = "left_raising"
    /\ closes >= 3
    /\ session = "closed"

\* C15: once close() has been called no endpoint method sends a request
\* through the client's session.
C15_NoRequestAfterClose == ~sent_closed

\* C16: whatever an endpoint call raises (download_i18n_file included) is a
\* TranslatePlusError subclass, whatever the response or the transport
\* failure.
C16_OnlyTaxonomyEscapes ==
    \A t \in Threads :
        pc[t] = "done" /\ outcome[t].kind = "raise" =>
            outcome[t].exc \in Taxonomy

\* C17: download_i18n_file sends exactly one request; on a status below 400
\* it returns the raw bytes of the body, on a status of 400 or more it
\* raises TranslatePlusAPIError carrying the status code and the parsed
\* error body (the empty dict for an empty body).
C17_DownloadOutcome ==
    \A t \in Threads :
        /\ method[t] = "download_i18n_file"
        /\ pc[t] = "done"
        /\ Got(t, 1).kind = "response"
        => /\ nreq[t] = 1
           /\ Got(t, 1).status_code < 400 =>
                 outcome[t] = Returned(Bytes(Got(t, 1).content))
           /\ Got(t, 1).status_code >= 400 =>
                 /\ outcome[t].kind = "raise"
                 /\ outcome[t].exc = "TranslatePlusAPIError"
                 /\ outcome[t].status_code = Some(Got(t, 1).status_code)
                 /\ Got(t, 1).content = "" =>
                       outcome[t].response = EmptyDict
                 /\ Json(Got(t, 1).content) # None =>
                       outcome[t].response = The(Json(Got(t, 1).content))

\* C18: a client built from an api_key alone has the base_url
\* "https://api.translateplus.com"; a base_url passed to the constructor is
\* kept as it was passed.
C18_BaseUrl ==
    IsConstructed =>
        /\ init_args.base_url = None =>
              base_url = <<"https://api.translateplus.com">>
        /\ init_args.base_url # None =>
              base_url = The(init_args.base_url)

\* C19: with max_retries >= 0 a dispatcher call sends at most
\* max_retries + 1 requests and sleeps at most max_retries times, and it
\* has sent at least one request when it ends.
C19_RequestsBounded ==
    \A t \in Threads :
        dispatches[t] = 1 /\ max_retries >= 0 =>
            /\ nreq[t] <= max_retries + 1
            /\ Sleeps(t) <= max_retries
            /\ pc[t] = "done" => nreq[t] >= 1

C19_Witness ==
    /\ max_retries = 2
    /\ pc[Caller] = "done"
    /\ dispatches[Caller] = 1
    /\ nreq[Caller] = 3
    /\ Sleeps(Caller) = 2

\* C20: the permits available and the permits held by dispatcher calls
\* always add up to max_concurrent, and all of them are available whenever
\* no dispatcher call is under way.
C20_PermitsConserved ==
    /\ sem >= 0
    /\ sem + Cardinality(Holders) = max_concurrent
    /\ (\A t \in Threads :
            pc[t] \notin {"loop", "inflight", "sleep_held", "sleep_free"})
       => sem = max_concurrent

C20_Witness ==
    /\ pc[1] = "done"
    /\ outcome[1].exc = "TranslatePlusRateLimitError"
    /\ Sleeps(1) = 1
    /\ pc[2] = "sleep_held"
    /\ sem = max_concurrent - 1

\* C21: a thread never holds a slot while it sleeps between two attempts,
\* after a 429 response as after a transport failure.
C21_NoSlotHeldAsleep ==
    (\E t \in Threads : pc[t] \in {"sleep_held", "sleep_free"}) =>
        sem + Cardinality({u \in Threads : pc[u] = "inflight"})
            = max_concurrent

\* C23: translate_concurrent calls translate exactly once for every input
\* text, runs at most max_workers of these calls at a time, takes the
\* client's max_concurrent as max_workers when the argument is omitted,
\* and never has more than max_concurrent requests in flight, also when
\* max_workers is larger.
C23_OneCallPerText ==
    /\ \A i \in DOMAIN future :
          /\ future[i].calls <= 1
          /\ future[i].state = "done" => future[i].calls = 1
    /\ mainpc = "returned" =>
          \A i \in 1..texts : future[i].calls = 1
    /\ Cardinality({t \in Threads : item[t] # 0}) <= max_workers
    /\ (mainpc # "none" /\ workers_arg = None) =>
          max_workers = max_concurrent
    /\ (mainpc # "none" /\ workers_arg # None) =>
          max_workers = The(workers_arg)
    /\ Cardinality(InFlight) <= max_concurrent

C23_Witness ==
    /\ texts = 2
    /\ max_workers = 2
    /\ max_concurrent = 1
    /\ \A t \in {1, 2} : item[t] # 0 /\ pc[t] \in {"loop", "inflight"}
    /\ Cardinality(InFlight) = 1

\* C22: with max_concurrent >= 1 and max_retries >= 0, under a fair
\* scheduler every dispatcher call of a pool thread ends and every
\* translate_concurrent call returns, whatever the number of workers and
\* whichever threads are in a 429 or transport backoff.
C22_EventuallyCompletes ==
    (max_concurrent >= 1 /\ max_retries >= 0) =>
        /\ \A t \in Threads : (pc[t] = "loop") ~> (pc[t] = "done")
        /\ (mainpc \in {"submit", "collect"}) ~> (mainpc = "returned")

C22_Witness ==
    /\ mainpc = "returned"
    /\ texts = 2
    /\ max_workers = 2
    /\ max_concurrent = 1
    /\ max_retries = 1
    /\ future[1].outcome.exc = "TranslatePlusRateLimitError"
    /\ future[2].outcome.exc = "TranslatePlusAPIError"

\* The response that ended t's call, when the call ended on a response
\* with a status of 400 or more.
EndedOnErrorStatus(t) ==
    /\ pc[t] = "done"
    /\ outcome[t].kind = "raise"
    /\ hist[t] # <<>>
    /\ Got(t, Len(hist[t])).kind = "response"
    /\ Got(t, Len(hist[t])).status_code >= 400

\* C24: a TranslatePlusAPIError (or subclass) raised by the dispatcher or by
\* download_i18n_file because of a response with status >= 400 carries that
\* status as status_code and that response's error payload as response.
C24_StatusAndPayloadPreserved ==
    \A t \in Threads :
        (EndedOnErrorStatus(t) /\ outcome[t].exc \in Taxonomy) =>
            LET last == Got(t, Len(hist[t]))
            IN  /\ outcome[t].status_code = Some(last.status_code)
                /\ Json(last.content) # None =>
                      outcome[t].response = The(Json(last.content))
                /\ last.content = "" =>
                      outcome[t].response \in {EmptyDict, JNone}

\* C25: the headers sent with every request contain X-API-KEY with the
\* client's key; they contain Content-Type: application/json when the
\* request has a structured body, and no Content-Type set by the client
\* when it uploads a file.
C25_HeadersSent ==
    \A t \in Threads : \A i \in 1..Len(hist[t]) :
        LET h == hist[t][i].headers
        IN  /\ "X-API-KEY" \in DOMAIN h
            /\ h["X-API-KEY"] = api_key
            /\ (dispatches[t] = 1 /\ ~arg[t].has_files) =>
                  /\ "Content-Type" \in DOMAIN h
                  /\ h["Content-Type"] = "application/json"
            /\ arg[t].has_files => "Content-Type" \notin DOMAIN h

\* C26: create_i18n_job on a file that is missing or cannot be read raises
\* TranslatePlusValidationError, with no request sent and no slot taken.
C26_MissingFileIsValidationError ==
    \A t \in Threads :
        (method[t] = "create_i18n_job" /\ arg[t].path # "ok") =>
            /\ pc[t] = "done"
            /\ outcome[t].kind = "raise"
            /\ outcome[t].exc = "TranslatePlusValidationError"
            /\ nreq[t] = 0
            /\ hist[t] = <<>>
            /\ sem = max_concurrent

\* C27: every attempt of create_i18n_job uploads the whole file, the
\* retries after a 429 or a transport failure included.
C27_WholeFileOnRetry ==
    \A t \in Threads :
        method[t] = "create_i18n_job" =>
            /\ pc[t] = "inflight" => arg[t].sent = arg[t].size
            /\ \A i \in 1..Len(hist[t]) :
                  hist[t][i].uploaded = arg[t].size

\* The call ended in the raise that follows the retry loop.
FellThrough(t) ==
    /\ pc[t] = "done"
    /\ outcome[t].message # <<>>
    /\ outcome[t].message[1] = "Request failed after retries: "

\* C28: with max_retries >= 0 a dispatcher call never ends in the raise
\* that follows the retry loop; that raise is reached only with
\* max_retries < 0, and then it raises TranslatePlusAPIError after no
\* request at all.
C28_TrailingRaiseOnlyWithoutAttempts ==
    \A t \in Threads :
        /\ (max_retries >= 0 /\ dispatches[t] = 1) => ~FellThrough(t)
        /\ FellThrough(t) =>
              /\ max_retries < 0
              /\ outcome[t].exc = "TranslatePlusAPIError"
              /\ nreq[t] = 0
              /\ hist[t] = <<>>
        /\ (max_retries < 0 /\ dispatches[t] = 1 /\ pc[t] = "done") =>
              FellThrough(t)

C28_Witness ==
    /\ max_retries = -1
    /\ FellThrough(Caller)
    /\ nreq[Caller] = 0

\* ------------------------------------------------------------ lemmas
\* C2, C3, C4, C5, C7 and C8 fail only on a body that is not a JSON object
\* or on a Retry-After header that is no number: restricted to the other
\* responses each of them holds under Spec.
ObjectOrEmpty(t, i) == Got(t, i).content \in {BodyEmpty, BodyDetail, BodyObject}
NumericRetryAfter(t, i) == Got(t, i).retry_after # <<RetryAfterDate>>

AuthenticationNeverRetriedOnObjectBody ==
    \A t \in Threads : \A i \in Attempts(t) :
        (IsStatus(t, i, {401, 403}) /\ ObjectOrEmpty(t, i)) =>
            /\ EndsCall(t, i)
            /\ outcome[t].exc = "TranslatePlusAuthenticationError"

InsufficientCreditsNeverRetriedOnObjectBody ==
    \A t \in Threads : \A i \in Attempts(t) :
        (IsStatus(t, i, {402}) /\ ObjectOrEmpty(t, i)) =>
            /\ EndsCall(t, i)
            /\ outcome[t].exc = "TranslatePlusInsufficientCreditsError"

RateLimitRetriedThenRaisedOnParsableInput ==
    \A t \in Threads :
        (/\ method[t] = "translate"
         /\ All429(t)
         /\ \A i \in Attempts(t) :
                NumericRetryAfter(t, i) /\ Got(t, i).content # BodyHtml) =>
            /\ Len(hist[t]) - 1 < max_retries => outcome[t].kind # "raise"
            /\ pc[t] = "done" =>
                   /\ nreq[t] = max_retries + 1
                   /\ outcome[t].exc = "TranslatePlusRateLimitError"
                   /\ outcome[t].status_code = Some(429)

RateLimitSleepOnNumericHeader ==
    \A t \in Threads : \A i \in Attempts(t) :
        (IsStatus(t, i, {429}) /\ NumericRetryAfter(t, i)) =>
            IF i - 1 < max_retries
            THEN IF Got(t, i).retry_after = <<>>
                 THEN hist[t][i].slept = Some(2 ^ (i - 1))
                 ELSE hist[t][i].slept = Some(12)
            ELSE hist[t][i].slept = None

GenericErrorNotRetriedOnObjectBody ==
    \A t \in Threads : \A i \in Attempts(t) :
        (/\ IsStatus(t, i, {400})
         /\ ObjectOrEmpty(t, i)) =>
            /\ EndsCall(t, i)
            /\ outcome[t].exc = "TranslatePlusAPIError"
            /\ outcome[t].status_code = Some(400)
            /\ outcome[t].response =
                   IF Got(t, i).content = BodyEmpty THEN EmptyDict
                   ELSE The(Json(Got(t, i).content))

SuccessReturnsBodyOnJson ==
    \A t \in Threads : \A i \in Attempts(t) :
        (/\ IsStatus(t, i, 200..399)
         /\ Json(Got(t, i).content) # None) =>
            /\ EndsCall(t, i)
            /\ Json(Got(t, i).content) = Some(outcome[t].value)

\* C17 fails only on an error body that is not a JSON object: on the other
\* responses download_i18n_file raises TranslatePlusAPIError with the
\* status code and the parsed body.
DownloadOutcomeOnObjectBody ==
    \A t \in Threads :
        /\ method[t] = "download_i18n_file"
        /\ pc[t] = "done"
        /\ Got(t, 1).kind = "response"
        /\ Got(t, 1).status_code >= 400
        /\ ObjectOrEmpty(t, 1)
        => /\ nreq[t] = 1
           /\ outcome[t].exc = "TranslatePlusAPIError"
           /\ outcome[t].status_code = Some(Got(t, 1).status_code)
           /\ outcome[t].response =
                  IF Got(t, 1).content = "" THEN EmptyDict
                  ELSE The(Json(Got(t, 1).content))

\* C16 restricted the same way, to calls routed through the dispatcher:
\* with object (or empty) bodies and a numeric Retry-After every exception
\* of _make_request is a TranslatePlusError.
OnlyTaxonomyEscapesOnParsableInput ==
    \A t \in Threads :
        /\ dispatches[t] = 1
        /\ pc[t] = "done"
        /\ outcome[t].kind = "raise"
        /\ \A i \in Attempts(t) :
              Got(t, i).kind = "response" =>
                  ObjectOrEmpty(t, i) /\ NumericRetryAfter(t, i)
        => outcome[t].exc \in Taxonomy

\* C24 restricted the same way: an error response whose body is a JSON
\* object or empty is raised with its status code and payload.
StatusAndPayloadPreservedOnObjectBody ==
    \A t \in Threads :
        (/\ EndedOnErrorStatus(t)
         /\ outcome[t].exc \in Taxonomy
         /\ ObjectOrEmpty(t, Len(hist[t]))) =>
            LET last == Got(t, Len(hist[t]))
            IN  /\ outcome[t].status_code = Some(last.status_code)
                /\ last.content # "" =>
                       outcome[t].response = The(Json(last.content))
                /\ last.content = "" =>
                       outcome[t].response \in {EmptyDict, JNone}

\* What does hold of C26: a file that cannot be opened ends the call
\* before the dispatcher is reached, with the exception open() raised.
NoRequestOnUnopenedFile ==
    \A t \in Threads :
        (method[t] = "create_i18n_job" /\ arg[t].path # "ok") =>
            /\ pc[t] = "done"
            /\ outcome[t].exc \in {"FileNotFoundError", "PermissionError"}
            /\ dispatches[t] = 0
            /\ nreq[t] = 0
            /\ hist[t] = <<>>
            /\ sem = max_concurrent

\* What does hold of C27: the first attempt uploads the whole file.
WholeFileOnFirstAttempt ==
    \A t \in Threads :
        (method[t] = "create_i18n_job" /\ hist[t] # <<>>) =>
            hist[t][1].uploaded = arg[t].size
====
